---- MODULE Spec2Model ----
(***************************************************************************)
(* A model of run_multiview.py: the filename-based camera position         *)
(* extractor (a regular expression matcher, float conversion and the       *)
(* three-way coverage decision) and the command-line script around it.     *)
(*                                                                         *)
(* A Python str is modelled as a sequence of one-character strings.        *)
(***************************************************************************)
EXTENDS Integers, Sequences, FiniteSets, TLC

VARIABLES
    pc,                 \* position of the script (or of the extractor call)
    listing,            \* os.listdir(args.image_dir): the set of file names
    args,               \* the argparse namespace (fields of registered options)
    image_paths,        \* the list handed to the extractor / the scan's result
    camera_positions,   \* the extractor's return value
    stdout,             \* the messages printed by the extractor, in order
    extract_calls,      \* the argument lists the extractor was invoked with
    images,             \* number of preprocessed images
    saved,              \* number of files written under inputs/
    vertex_count,       \* the derived vertex count
    model_call,         \* the keyword arguments of model.run_multiview_image
    written,            \* the output files written so far
    error,              \* the exception that ended the run
    TRIANGLE_REMESH_AVAILABLE,  \* spar3d.models.mesh: the backends installed
    QUAD_REMESH_AVAILABLE,
    default_distance,   \* model.cfg.default_distance, once overridden
    built               \* the name and coordinates a path was rendered from

vars == <<pc, listing, args, image_paths, camera_positions, stdout,
          extract_calls, images, saved, vertex_count, model_call, written, error,
          TRIANGLE_REMESH_AVAILABLE, QUAD_REMESH_AVAILABLE, default_distance, built>>

----------------------------------------------------------------------------
(* Characters                                                              *)

Digit == {"0", "1", "2", "3", "4", "5", "6", "7", "8", "9"}

DigitVal(c) ==
    CASE c = "0" -> 0 [] c = "1" -> 1 [] c = "2" -> 2 [] c = "3" -> 3
      [] c = "4" -> 4 [] c = "5" -> 5 [] c = "6" -> 6 [] c = "7" -> 7
      [] c = "8" -> 8 [] c = "9" -> 9

\* str.lower() on the characters that occur in the model's file names.
LowerChar(c) ==
    CASE c = "P" -> "p" [] c = "N" -> "n" [] c = "G" -> "g" [] c = "J" -> "j"
      [] OTHER -> c

Lower(s) == [i \in 1..Len(s) |-> LowerChar(s[i])]

\* The code point of a character, for sorted().
Ord(c) ==
    CASE c = "\n" -> 10 [] c = "-" -> 45 [] c = "." -> 46 [] c = "/" -> 47
      [] c \in Digit -> 48 + DigitVal(c)
      [] c = "G" -> 71 [] c = "J" -> 74 [] c = "N" -> 78 [] c = "P" -> 80
      [] c = "_" -> 95
      [] c = "a" -> 97 [] c = "b" -> 98 [] c = "c" -> 99 [] c = "d" -> 100
      [] c = "e" -> 101 [] c = "g" -> 103 [] c = "h" -> 104 [] c = "i" -> 105
      [] c = "j" -> 106 [] c = "m" -> 109 [] c = "n" -> 110 [] c = "o" -> 111
      [] c = "p" -> 112 [] c = "r" -> 114 [] c = "t" -> 116 [] c = "v" -> 118
      [] c = "x" -> 120

----------------------------------------------------------------------------
(* The regular expression engine (re.match): a backtracking matcher that   *)
(* tries the alternatives in the order Python's engine does, so that the   *)
(* captured groups are those of the first successful match.                *)

\* Pattern nodes.
AnyChar  == [neg |-> TRUE,  set |-> {"\n"}]       \* .   (no DOTALL flag)
DigitCls == [neg |-> FALSE, set |-> Digit]        \* \d
One(c)   == [neg |-> FALSE, set |-> {c}]

Star(cls)  == [t |-> "rep", cls |-> cls, min |-> 0, many |-> TRUE]    \* x*
Plus(cls)  == [t |-> "rep", cls |-> cls, min |-> 1, many |-> TRUE]    \* x+
Opt(cls)   == [t |-> "rep", cls |-> cls, min |-> 0, many |-> FALSE]   \* x?
Lit(c)     == [t |-> "lit", c |-> c]
Open(g)    == [t |-> "open", g |-> g]
Close(g)   == [t |-> "close", g |-> g]
Alt(opts)  == [t |-> "alt", opts |-> opts]
EndAnchor  == [t |-> "eol"]                                            \* $

InClass(c, cls) == IF cls.neg THEN c \notin cls.set ELSE c \in cls.set

NoMatch == [ok |-> FALSE, start |-> <<0, 0, 0, 0>>,
            grp |-> <<<< >>, << >>, << >>, << >>>>]

NoCaps == [start |-> <<0, 0, 0, 0>>, grp |-> <<<< >>, << >>, << >>, << >>>>]

RECURSIVE RunLen(_, _, _)
\* The number of consecutive characters of class cls in s from position p.
RunLen(cls, s, p) ==
    IF p <= Len(s) /\ InClass(s[p], cls) THEN 1 + RunLen(cls, s, p + 1) ELSE 0

\* Whether the literal string w occurs in s at position p.
StartsWithAt(s, p, w) ==
    /\ p + Len(w) - 1 <= Len(s)
    /\ \A i \in 1..Len(w) : s[p + i - 1] = w[i]

RECURSIVE MatchAt(_, _, _, _, _)
RECURSIVE TryRep(_, _, _, _, _, _)
RECURSIVE TryAlt(_, _, _, _, _, _)

\* Match the nodes pat[k..] against s from position p; caps holds the groups
\* captured so far.
MatchAt(pat, k, s, p, caps) ==
    IF k > Len(pat)
    THEN [ok |-> TRUE, start |-> caps.start, grp |-> caps.grp]
    ELSE LET n == pat[k] IN
         CASE n.t = "rep" ->
                LET run == RunLen(n.cls, s, p)
                    most == IF n.many \/ run = 0 THEN run ELSE 1
                IN  TryRep(pat, k, s, p, caps, most)
           [] n.t = "lit" ->
                IF p <= Len(s) /\ s[p] = n.c
                THEN MatchAt(pat, k + 1, s, p + 1, caps)
                ELSE NoMatch
           [] n.t = "open" ->
                MatchAt(pat, k + 1, s, p, [caps EXCEPT !.start[n.g] = p])
           [] n.t = "close" ->
                MatchAt(pat, k + 1, s, p,
                        [caps EXCEPT !.grp[n.g] = SubSeq(s, caps.start[n.g], p - 1)])
           [] n.t = "alt" -> TryAlt(pat, k, s, p, caps, 1)
           [] n.t = "eol" ->
                \* $ without MULTILINE: at the end of the string, or just
                \* before a newline that is the last character.
                IF p = Len(s) + 1 \/ (p = Len(s) /\ s[p] = "\n")
                THEN MatchAt(pat, k + 1, s, p, caps)
                ELSE NoMatch

\* A greedy repetition: the longest run first, then shorter ones.
TryRep(pat, k, s, p, caps, n) ==
    IF n < pat[k].min THEN NoMatch
    ELSE LET r == MatchAt(pat, k + 1, s, p + n, caps)
         IN  IF r.ok THEN r ELSE TryRep(pat, k, s, p, caps, n - 1)

\* An alternation of literals: the alternatives in the order written.
TryAlt(pat, k, s, p, caps, j) ==
    IF j > Len(pat[k].opts) THEN NoMatch
    ELSE LET w == pat[k].opts[j]
             r == IF StartsWithAt(s, p, w)
                  THEN MatchAt(pat, k + 1, s, p + Len(w), caps)
                  ELSE NoMatch
         IN  IF r.ok THEN r ELSE TryAlt(pat, k, s, p, caps, j + 1)

\* re.match(pattern, string): anchored at the start of the string only.
re_match(pat, s) == MatchAt(pat, 1, s, 1, NoCaps)

\* (-?\d+\.?\d*) as capture group g
NumberGroup(g) ==
    <<Open(g), Opt(One("-")), Plus(DigitCls), Opt(One(".")), Star(DigitCls), Close(g)>>

\* A plausible slip: (-?\d*\.?\d*), which also captures "", "-" and ".".
NumberGroupLoose(g) ==
    <<Open(g), Opt(One("-")), Star(DigitCls), Opt(One(".")), Star(DigitCls), Close(g)>>

Extensions == <<<<"p", "n", "g">>, <<"j", "p", "g">>, <<"j", "p", "e", "g">>>>

\* A plausible slip: the underscore before the first group left out.
position_pattern_shifted ==
    <<Star(AnyChar)>> \o NumberGroup(1)
      \o <<Lit("_")>> \o NumberGroup(2)
      \o <<Lit("_")>> \o NumberGroup(3)
      \o <<Lit("."), Open(4), Alt(Extensions), Close(4), EndAnchor>>

\* A plausible slip: \d* for \d+ in the groups.
position_pattern_loose ==
    <<Star(AnyChar)>>
      \o <<Lit("_")>> \o NumberGroupLoose(1)
      \o <<Lit("_")>> \o NumberGroupLoose(2)
      \o <<Lit("_")>> \o NumberGroupLoose(3)
      \o <<Lit("."), Open(4), Alt(Extensions), Close(4), EndAnchor>>

\* r'.*_(-?\d+\.?\d*)_(-?\d+\.?\d*)_(-?\d+\.?\d*)\.(png|jpg|jpeg)$'
position_pattern ==
    <<Star(AnyChar)>>
      \o <<Lit("_")>> \o NumberGroup(1)
      \o <<Lit("_")>> \o NumberGroup(2)
      \o <<Lit("_")>> \o NumberGroup(3)
      \o <<Lit("."), Open(4), Alt(Extensions), Close(4), EndAnchor>>

----------------------------------------------------------------------------
(* float(str), for strings of sign, digits and dot (no exponent, no        *)
(* whitespace, no inf/nan: the characters the model's file names hold).    *)
(* A value is m * 10^e with m not divisible by 10 (0 is m = 0, e = 0), so  *)
(* two values are equal exactly when the floats are.                       *)

ValueError == [ok |-> FALSE, m |-> 0, e |-> 0]

RECURSIVE DigitsValue(_)
DigitsValue(ds) ==
    IF ds = << >> THEN 0
    ELSE 10 * DigitsValue(SubSeq(ds, 1, Len(ds) - 1)) + DigitVal(ds[Len(ds)])

RECURSIVE Normal(_, _)
Normal(m, e) ==
    IF m = 0 THEN [ok |-> TRUE, m |-> 0, e |-> 0]
    ELSE IF m % 10 = 0 THEN Normal(m \div 10, e + 1)
    ELSE [ok |-> TRUE, m |-> m, e |-> e]

Negate(v) == [v EXCEPT !.m = 0 - v.m]

float(s) ==
    LET neg  == Len(s) > 0 /\ s[1] = "-"
        body == IF neg THEN Tail(s) ELSE s
        dots == {i \in 1..Len(body) : body[i] = "."}
        ip   == IF dots = {} THEN body
                ELSE SubSeq(body, 1, (CHOOSE i \in dots : TRUE) - 1)
        fp   == IF dots = {} THEN << >>
                ELSE SubSeq(body, (CHOOSE i \in dots : TRUE) + 1, Len(body))
        wellformed ==
            /\ Cardinality(dots) <= 1
            /\ \A i \in 1..Len(ip) : ip[i] \in Digit
            /\ \A i \in 1..Len(fp) : fp[i] \in Digit
            /\ Len(ip) + Len(fp) >= 1
    IN  IF ~wellformed THEN ValueError
        ELSE LET v == Normal(DigitsValue(ip \o fp), 0 - Len(fp))
             IN  IF neg THEN Negate(v) ELSE v

----------------------------------------------------------------------------
(* os.path.basename: what follows the last "/"                             *)

basename(path) ==
    LET slashes == {i \in 1..Len(path) : path[i] = "/"}
        last == IF slashes = {} THEN 0
                ELSE CHOOSE i \in slashes : \A j \in slashes : j <= i
    IN  SubSeq(path, last + 1, Len(path))

----------------------------------------------------------------------------
(* extract_structured_camera_positions                                     *)

None == [tag |-> "None", val |-> << >>]
List(v) == [tag |-> "list", val |-> v]

\* The body of the loop for one path: the match and the three conversions.
MatchFile(image_path) ==
    LET filename == basename(image_path)
        match == re_match(position_pattern, filename)
        x == float(match.grp[1])
        y == float(match.grp[2])
        z == float(match.grp[3])
    IN  [matched |-> match.ok,
         raised  |-> match.ok /\ ~(x.ok /\ y.ok /\ z.ok),
         xyz     |-> <<x, y, z>>]

\* A plausible slip: positions.insert(0, ...) for positions.append(...).
AddMatchFront(acc, i, xyz) ==
    [acc EXCEPT !.positions = <<xyz>> \o @,
                !.valid_indices = <<i>> \o @]

\* positions.append([x, y, z]); valid_indices.append(i)
AddMatch(acc, i, xyz) ==
    [acc EXCEPT !.positions = Append(@, xyz),
                !.valid_indices = Append(@, i)]

RECURSIVE ScanLoop(_, _, _)
\* for i, image_path in enumerate(images): ...   (k = i + 1)
ScanLoop(imgs, k, acc) ==
    IF k > Len(imgs) THEN acc
    ELSE LET f == MatchFile(imgs[k]) IN
         IF f.raised THEN [acc EXCEPT !.raised = TRUE]
         ELSE IF f.matched THEN ScanLoop(imgs, k + 1, AddMatch(acc, k - 1, f.xyz))
         ELSE ScanLoop(imgs, k + 1, acc)

Extracted(n)      == [msg |-> "Extracted camera positions from", n |-> n, of |-> n]
WarnPartial(n, t) == [msg |-> "Warning: Could only extract camera positions from",
                      n |-> n, of |-> t]
UsingDefault      == [msg |-> "Using default camera positions for all images",
                      n |-> 0, of |-> 0]

\* A plausible slip: the matched subset returned on partial coverage.
DecideRagged(imgs, positions) ==
    IF Len(positions) = Len(imgs)
    THEN [ret |-> List(positions), out |-> <<Extracted(Len(positions))>>]
    ELSE IF Len(positions) > 0
    THEN [ret |-> List(positions),
          out |-> <<WarnPartial(Len(positions), Len(imgs)), UsingDefault>>]
    ELSE [ret |-> None, out |-> << >>]

\* A plausible slip: `else` for `elif len(positions) > 0`.
DecideNoisy(imgs, positions) ==
    IF Len(positions) = Len(imgs)
    THEN [ret |-> List(positions), out |-> <<Extracted(Len(positions))>>]
    ELSE [ret |-> None,
          out |-> <<WarnPartial(Len(positions), Len(imgs)), UsingDefault>>]

\* The three-way outcome after the loop.
Decide(imgs, positions) ==
    IF Len(positions) = Len(imgs)
    THEN [ret |-> List(positions), out |-> <<Extracted(Len(positions))>>]
    ELSE IF Len(positions) > 0
    THEN [ret |-> None,
          out |-> <<WarnPartial(Len(positions), Len(imgs)), UsingDefault>>]
    ELSE [ret |-> None, out |-> << >>]

extract_structured_camera_positions(imgs) ==
    LET loop == ScanLoop(imgs, 1, [positions |-> << >>, valid_indices |-> << >>,
                                   raised |-> FALSE])
        d == Decide(imgs, loop.positions)
    IN  IF loop.raised
        THEN [raised |-> TRUE, ret |-> None, out |-> << >>]
        ELSE [raised |-> FALSE, ret |-> d.ret, out |-> d.out]

----------------------------------------------------------------------------
(* The inputs of the model: file names and path lists                      *)

MaxImages == 2      \* longest path list handed to the extractor on its own
MaxFiles == 3       \* most files in the image directory

\* The file names the specification's examples use.
a_1_2_3_png      == <<"a", "_", "1", "_", "2", "_", "3", ".", "p", "n", "g">>
b_m1p5_0_0p5_jpg == <<"b", "_", "-", "1", ".", "5", "_", "0", "_", "0", ".", "5", ".", "j", "p", "g">>
img_1_2_3_png    == <<"i", "m", "g", "_", "1", "_", "2", "_", "3", ".", "p", "n", "g">>
random_jpg       == <<"r", "a", "n", "d", "o", "m", ".", "j", "p", "g">>
photo1_png       == <<"p", "h", "o", "t", "o", "1", ".", "p", "n", "g">>
photo2_jpg       == <<"p", "h", "o", "t", "o", "2", ".", "j", "p", "g">>
a_1_2_png        == <<"a", "_", "1", "_", "2", ".", "p", "n", "g">>
a_1_2_3_bmp      == <<"a", "_", "1", "_", "2", "_", "3", ".", "b", "m", "p">>
img_1_2_3_PNG    == <<"i", "m", "g", "_", "1", "_", "2", "_", "3", ".", "P", "N", "G">>

CoreFiles ==
    {a_1_2_3_png, b_m1p5_0_0p5_jpg, img_1_2_3_png, random_jpg, photo1_png,
     photo2_jpg, a_1_2_png, a_1_2_3_bmp, img_1_2_3_PNG}

RECURSIVE Concat(_)
\* The concatenation of a sequence of strings.
Concat(parts) ==
    IF parts = << >> THEN << >> ELSE Head(parts) \o Concat(Tail(parts))

\* Every sequence over S of length 0..n.
SeqsUpTo(S, n) == UNION {[1..k -> S] : k \in 0..n}

\* A coordinate as a number: sign, integer digits, fractional digits.
Signs     == {FALSE, TRUE}
IntParts  == {<<"3">>, <<"1", "2">>}
FracParts == {<< >>, <<"0", "5">>}
Coords    == [neg : Signs, ip : IntParts, fp : FracParts]

\* The decimal string of a coordinate: optional minus, digits, optional
\* fractional part.
Render(c) ==
    (IF c.neg THEN <<"-">> ELSE << >>) \o c.ip
        \o (IF c.fp = << >> THEN << >> ELSE <<".">> \o c.fp)

RECURSIVE Pow10(_)
Pow10(n) == IF n = 0 THEN 1 ELSE 10 * Pow10(n - 1)

\* The number a coordinate denotes, as a value m * 10^e.
CoordValue(c) ==
    LET mag == DigitsValue(c.ip) * Pow10(Len(c.fp)) + DigitsValue(c.fp)
    IN  Normal(IF c.neg THEN 0 - mag ELSE mag, 0 - Len(c.fp))

\* Prefixes `name`, with underscores and digits of their own.
Prefixes == {<< >>, <<"a">>, <<"a", "_", "7">>, <<"i", "m", "g", "_", "1", "_", "2", "_", "3">>}

\* name_{x}_{y}_{z}.png
RenderedName(b) ==
    Concat(<<b.name, <<"_">>, Render(b.x), <<"_">>, Render(b.y), <<"_">>,
             Render(b.z), <<".", "p", "n", "g">>>>)

Builds == [name : Prefixes, x : Coords, y : Coords, z : Coords]

\* Strings that look like numbers, the malformed ones included.
NumLike ==
    {Concat(<<sg, ip, dt, fp>>) :
        sg \in {<< >>, <<"-">>}, ip \in {<< >>, <<"3">>, <<"1", "2">>},
        dt \in {<< >>, <<".">>}, fp \in {<< >>, <<"5">>}}

GoodNums == {<<"1">>, <<"-", "1", ".", "5">>}

\* a_{g1}_{g2}_{g3}.png with one group any number-like string.
OneOddFiles ==
    {Concat(<<<<"a">>, <<"_">>, t[1], <<"_">>, t[2], <<"_">>, t[3], <<".", "p", "n", "g">>>>) :
        t \in UNION {{<<n, g, h>>, <<g, n, h>>, <<g, h, n>>} :
                        n \in NumLike, g \in GoodNums, h \in GoodNums}}

RECURSIVE Groups(_)
\* _g1_g2..._gk
Groups(gs) ==
    IF gs = << >> THEN << >> ELSE <<"_">> \o Head(gs) \o Groups(Tail(gs))

\* a, then 0 to 4 numeric groups, then an extension.
GroupCountFiles ==
    {Concat(<<<<"a">>, Groups(gs), <<".">>, ext>>) :
        gs \in SeqsUpTo(GoodNums, 4), ext \in {<<"p", "n", "g">>, <<"j", "p", "e", "g">>}}

Dirs  == {<< >>, <<"d", "/">>, <<"v", "_", "1", "_", "2", "_", "3", ".", "p", "n", "g", "/">>}
Exts  == {<<"p", "n", "g">>, <<"j", "p", "g">>, <<"j", "p", "e", "g">>, <<"b", "m", "p">>, <<"P", "N", "G">>, <<"J", "P", "G">>, <<"p", "n">>, <<"p", "n", "g", "x">>}
Tails == {<< >>, <<"\n">>, <<"x">>, <<"\n", "\n">>}

\* Paths with three well-formed groups and a varied directory, extension
\* and ending.
VariedPaths ==
    {Concat(<<d, name, Groups(gs), dot, ext, tl>>) :
        d \in Dirs, name \in {<<"a">>, <<"a", "_", "7">>},
        gs \in {<<<<"1">>, <<"2">>, <<"3">>>>, <<<<"-", "1", ".", "5">>, <<"0">>, <<"0", ".", "5">>>>},
        dot \in {<<".">>, << >>}, ext \in Exts, tl \in Tails}

\* Directory, then a file name of the examples.
DirPaths == {d \o f : d \in Dirs, f \in CoreFiles}

----------------------------------------------------------------------------
(* The extractor called on its own, on any list of path strings            *)

NoError == "none"
Unset == [set |-> FALSE, v |-> 0]
NoArgs == [parsed |-> FALSE]

ExtractInputs ==
    {[paths |-> l, built |-> << >>] : l \in SeqsUpTo(CoreFiles, MaxImages)}
      \cup {[paths |-> <<q>>, built |-> << >>] :
                q \in OneOddFiles \cup GroupCountFiles \cup VariedPaths \cup DirPaths}
      \cup {[paths |-> <<RenderedName(b)>>, built |-> <<b>>] : b \in Builds}

InitExtract ==
    /\ pc = "extract_call"
    /\ \E inp \in ExtractInputs :
         /\ image_paths = inp.paths
         /\ built = inp.built
    /\ listing = {}
    /\ args = NoArgs
    /\ camera_positions = None
    /\ stdout = << >>
    /\ extract_calls = << >>
    /\ images = 0
    /\ saved = 0
    /\ vertex_count = Unset
    /\ model_call = << >>
    /\ written = {}
    /\ error = NoError
    /\ TRIANGLE_REMESH_AVAILABLE = FALSE
    /\ QUAD_REMESH_AVAILABLE = FALSE
    /\ default_distance = Unset

\* camera_positions = extract_structured_camera_positions(image_paths, args)
CallExtract ==
    /\ pc = "extract_call"
    /\ LET r == extract_structured_camera_positions(image_paths) IN
         /\ pc' = IF r.raised THEN "extract_raise" ELSE "extract_return"
         /\ error' = IF r.raised THEN "ValueError: could not convert string to float"
                     ELSE error
         /\ camera_positions' = r.ret
         /\ stdout' = stdout \o r.out
    /\ extract_calls' = Append(extract_calls, image_paths)
    /\ UNCHANGED <<listing, args, image_paths, images, saved, vertex_count,
                   model_call, written, TRIANGLE_REMESH_AVAILABLE,
                   QUAD_REMESH_AVAILABLE, default_distance, built>>

NextExtract == CallExtract

SpecExtract == InitExtract /\ [][NextExtract]_vars

----------------------------------------------------------------------------
(* The script (__main__)                                                   *)

\* The files that may lie in the image directory.
DirFiles ==
    {a_1_2_3_png, b_m1p5_0_0p5_jpg, random_jpg, photo1_png, a_1_2_3_bmp,
     img_1_2_3_PNG}

image_dir == <<"d">>

\* --device values tried, and --target_count values tried.
DeviceArgs == {<<"c", "p", "u">>, <<"t", "p", "u">>}
TargetArgs == {0, 1, 5}
DefaultTargetCount == 2000

Note(text) == [msg |-> text, n |-> 0, of |-> 0]

\* needle in haystack, for str
IsSubstring(needle, hay) ==
    \E p \in 1..(Len(hay) + 1) : StartsWithAt(hay, p, needle)

\* any(args.device in device for device in devices)
DeviceAccepted(device) ==
    \E d \in {<<"c", "u", "d", "a">>, <<"m", "p", "s">>, <<"c", "p", "u">>} : IsSubstring(device, d)

\* check_positive: ArgumentTypeError for a value <= 0.
check_positive(value) ==
    IF value <= 0 THEN [ok |-> FALSE, ivalue |-> value]
    ELSE [ok |-> TRUE, ivalue |-> value]

\* remesh_choices, as registered for --remesh_option
remesh_choices ==
    {"none"} \cup (IF TRIANGLE_REMESH_AVAILABLE THEN {"triangle"} ELSE {})
             \cup (IF QUAD_REMESH_AVAILABLE THEN {"quad"} ELSE {})

\* Whether --reduction_count_type and --target_count are registered.
ReductionRegistered == TRIANGLE_REMESH_AVAILABLE \/ QUAD_REMESH_AVAILABLE

EndsWith(s, suffix) ==
    /\ Len(suffix) <= Len(s)
    /\ SubSeq(s, Len(s) - Len(suffix) + 1, Len(s)) = suffix

\* file.lower().endswith((".png", ".jpg", ".jpeg"))
HasImageExtension(file) ==
    \E e \in {<<".", "p", "n", "g">>, <<".", "j", "p", "g">>, <<".", "j", "p", "e", "g">>} : EndsWith(Lower(file), e)

RECURSIVE StrLess(_, _)
\* s < t for str: by code points, a proper prefix first.
StrLess(s, t) ==
    IF t = << >> THEN FALSE
    ELSE IF s = << >> THEN TRUE
    ELSE IF Ord(Head(s)) # Ord(Head(t)) THEN Ord(Head(s)) < Ord(Head(t))
    ELSE StrLess(Tail(s), Tail(t))

RECURSIVE sorted(_)
\* sorted(S) of a set of distinct strings.
sorted(S) ==
    IF S = {} THEN << >>
    ELSE LET least == CHOOSE f \in S : \A g \in S \ {f} : StrLess(f, g)
         IN  <<least>> \o sorted(S \ {least})

\* os.path.join(args.image_dir, file)
path_join(dir, file) == dir \o <<"/">> \o file

\* The directory scan.
ScanImages(files) ==
    LET names == sorted(files)
        kept == SelectSeq(names, HasImageExtension)
    IN  [i \in 1..Len(kept) |-> path_join(image_dir, kept[i])]

\* A plausible slip: the check left at one image.
TooFewImagesOne(paths) == Len(paths) < 1

\* len(image_paths) < 2
TooFewImages(paths) == Len(paths) < 2

\* A plausible slip: the faces branch not halved.
VertexCountUnhalved(a) ==
    IF a.reduction_count_type = "keep" THEN 0 - 1
    ELSE a.target_count

\* The vertex count for remeshing.
VertexCount(a) ==
    IF a.reduction_count_type = "keep" THEN 0 - 1
    ELSE IF a.reduction_count_type = "vertex" THEN a.target_count
    ELSE a.target_count \div 2

\* The command lines tried: "" and << >> stand for an option not given.
RemeshArgs    == {"none", "triangle", "quad"}
ReductionArgs == {"", "keep", "vertex", "faces"}
TargetGiven   == {<< >>} \cup {<<t>> : t \in TargetArgs}
DistanceArgs  == {<< >>, <<2>>}

Init ==
    /\ pc = "parse_args"
    /\ listing \in {fs \in SUBSET DirFiles : Cardinality(fs) <= MaxFiles}
    /\ TRIANGLE_REMESH_AVAILABLE \in BOOLEAN
    /\ QUAD_REMESH_AVAILABLE \in BOOLEAN
    /\ args = NoArgs
    /\ image_paths = << >>
    /\ camera_positions = None
    /\ stdout = << >>
    /\ extract_calls = << >>
    /\ images = 0
    /\ saved = 0
    /\ vertex_count = Unset
    /\ model_call = << >>
    /\ written = {}
    /\ error = NoError
    /\ default_distance = Unset
    /\ built = << >>

\* args = parser.parse_args(), with the options registered for the backends
\* installed.  argparse ends the run (SystemExit) on a choice that is not
\* registered, an option that is not registered, or a type function's error.
ParseArgs ==
    /\ pc = "parse_args"
    /\ \E dev \in DeviceArgs, det \in BOOLEAN, rm \in RemeshArgs,
          rct \in ReductionArgs, tg \in TargetGiven, cd \in DistanceArgs :
         LET unknown == ~ReductionRegistered /\ (rct # "" \/ tg # << >>)
             badtype == tg # << >> /\ ~check_positive(tg[1]).ok
             usage   == rm \notin remesh_choices \/ unknown \/ badtype
             common  == [parsed |-> TRUE, device |-> dev,
                         detect_camera_positions |-> det, remesh_option |-> rm,
                         camera_distance |-> cd]
             reduction ==
                 [reduction_count_type |-> IF rct = "" THEN "keep" ELSE rct,
                  target_count |-> IF tg = << >> THEN DefaultTargetCount
                                   ELSE check_positive(tg[1]).ivalue]
         IN  IF usage
             THEN /\ pc' = "exit"
                  /\ error' = "SystemExit: usage"
                  /\ args' = args
             ELSE /\ pc' = "check_device"
                  /\ error' = error
                  /\ args' = IF ReductionRegistered THEN common @@ reduction
                             ELSE common
    /\ UNCHANGED <<listing, image_paths, camera_positions, stdout, extract_calls,
                   images, saved, vertex_count, model_call, written,
                   TRIANGLE_REMESH_AVAILABLE, QUAD_REMESH_AVAILABLE, default_distance, built>>

\* if not any(args.device in device for device in devices): raise ValueError
CheckDevice ==
    /\ pc = "check_device"
    /\ IF DeviceAccepted(args.device)
       THEN pc' = "load_model" /\ error' = error
       ELSE pc' = "error" /\ error' = "ValueError: Invalid device"
    /\ UNCHANGED <<listing, args, image_paths, camera_positions, stdout,
                   extract_calls, images, saved, vertex_count, model_call, written,
                   TRIANGLE_REMESH_AVAILABLE, QUAD_REMESH_AVAILABLE, default_distance, built>>

\* The output directory is made, the device is printed and the model is
\* loaded (an external collaborator).
LoadModel ==
    /\ pc = "load_model"
    /\ pc' = "scan"
    /\ stdout' = Append(stdout, Note("Device used"))
    /\ UNCHANGED <<listing, args, image_paths, camera_positions, extract_calls,
                   images, saved, vertex_count, model_call, written, error,
                   TRIANGLE_REMESH_AVAILABLE, QUAD_REMESH_AVAILABLE, default_distance, built>>

\* Find all images in the directory.
ScanDirectory ==
    /\ pc = "scan"
    /\ image_paths' = ScanImages(listing)
    /\ pc' = "check_count"
    /\ UNCHANGED <<listing, args, camera_positions, stdout, extract_calls, images,
                   saved, vertex_count, model_call, written, error,
                   TRIANGLE_REMESH_AVAILABLE, QUAD_REMESH_AVAILABLE, default_distance, built>>

\* if len(image_paths) < 2: raise ValueError
CheckCount ==
    /\ pc = "check_count"
    /\ IF TooFewImages(image_paths)
       THEN pc' = "error" /\ error' = "ValueError: Found only"
       ELSE pc' = "detect" /\ error' = error
    /\ UNCHANGED <<listing, args, image_paths, camera_positions, stdout,
                   extract_calls, images, saved, vertex_count, model_call, written,
                   TRIANGLE_REMESH_AVAILABLE, QUAD_REMESH_AVAILABLE, default_distance, built>>

FoundImages(n) ==
    [msg |-> "Found images for multi-view reconstruction", n |-> n, of |-> n]

\* camera_positions = None; the extractor is called under
\* --detect-camera-positions; the count found is printed.
DetectPositions ==
    /\ pc = "detect"
    /\ IF args.detect_camera_positions
       THEN LET r == extract_structured_camera_positions(image_paths) IN
              /\ extract_calls' = Append(extract_calls, image_paths)
              /\ IF r.raised
                 THEN /\ pc' = "error"
                      /\ error' = "ValueError: could not convert string to float"
                      /\ UNCHANGED <<camera_positions, stdout>>
                 ELSE /\ pc' = "preprocess"
                      /\ error' = error
                      /\ camera_positions' = r.ret
                      /\ stdout' = stdout \o r.out
                             \o <<FoundImages(Len(image_paths)),
                                  Note("Preprocessing images...")>>
       ELSE /\ pc' = "preprocess"
            /\ camera_positions' = None
            /\ stdout' = stdout \o <<FoundImages(Len(image_paths)),
                                     Note("Preprocessing images...")>>
            /\ UNCHANGED <<extract_calls, error>>
    /\ UNCHANGED <<listing, args, image_paths, images, saved, vertex_count,
                   model_call, written, TRIANGLE_REMESH_AVAILABLE,
                   QUAD_REMESH_AVAILABLE, default_distance, built>>

\* for image_path in tqdm(image_paths): remove_background, foreground_crop,
\* images.append(image)   (one iteration, or the loop's end)
Preprocess ==
    /\ pc = "preprocess"
    /\ IF images < Len(image_paths)
       THEN images' = images + 1 /\ pc' = pc
       ELSE images' = images /\ pc' = "save"
    /\ UNCHANGED <<listing, args, image_paths, camera_positions, stdout,
                   extract_calls, saved, vertex_count, model_call, written, error,
                   TRIANGLE_REMESH_AVAILABLE, QUAD_REMESH_AVAILABLE, default_distance, built>>

\* for i, image in enumerate(images): image.save(inputs/input_{i:03d}.png)
SaveInputs ==
    /\ pc = "save"
    /\ IF saved < images
       THEN saved' = saved + 1 /\ pc' = pc
       ELSE saved' = saved /\ pc' = "vertex_count"
    /\ UNCHANGED <<listing, args, image_paths, camera_positions, stdout,
                   extract_calls, images, vertex_count, model_call, written, error,
                   TRIANGLE_REMESH_AVAILABLE, QUAD_REMESH_AVAILABLE, default_distance, built>>

\* Set vertex count for remeshing: args.reduction_count_type is an
\* AttributeError when the option was not registered.  Then the camera
\* distance, when given, overrides the model's.
SetVertexCount ==
    /\ pc = "vertex_count"
    /\ IF "reduction_count_type" \in DOMAIN args
       THEN /\ vertex_count' = [set |-> TRUE, v |-> VertexCount(args)]
            /\ default_distance' = IF args.camera_distance # << >>
                                   THEN [set |-> TRUE, v |-> args.camera_distance[1]]
                                   ELSE default_distance
            /\ pc' = "run_model"
            /\ error' = error
            /\ stdout' = Append(stdout, Note("Processing multi-view reconstruction..."))
       ELSE /\ pc' = "error"
            /\ error' = "AttributeError: reduction_count_type"
            /\ UNCHANGED <<vertex_count, stdout, default_distance>>
    /\ UNCHANGED <<listing, args, image_paths, camera_positions, extract_calls,
                   images, saved, model_call, written, TRIANGLE_REMESH_AVAILABLE,
                   QUAD_REMESH_AVAILABLE, built>>

\* mesh, glob_dict = model.run_multiview_image(images, ...)
RunModel ==
    /\ pc = "run_model"
    /\ model_call' = Append(model_call,
                            [images |-> images,
                             remesh |-> args.remesh_option,
                             vertex_count |-> vertex_count.v,
                             camera_positions |-> camera_positions])
    /\ pc' = "export_mesh"
    /\ UNCHANGED <<listing, args, image_paths, camera_positions, stdout,
                   extract_calls, images, saved, vertex_count, written, error,
                   TRIANGLE_REMESH_AVAILABLE, QUAD_REMESH_AVAILABLE, default_distance, built>>

\* mesh.export(output_dir/mesh.glb)
ExportMesh ==
    /\ pc = "export_mesh"
    /\ written' = written \cup {"mesh.glb"}
    /\ pc' = "export_points"
    /\ UNCHANGED <<listing, args, image_paths, camera_positions, stdout,
                   extract_calls, images, saved, vertex_count, model_call, error,
                   TRIANGLE_REMESH_AVAILABLE, QUAD_REMESH_AVAILABLE, default_distance, built>>

\* glob_dict["point_clouds"][0].export(output_dir/points.ply), then the
\* closing messages.
ExportPoints ==
    /\ pc = "export_points"
    /\ written' = written \cup {"points.ply"}
    /\ stdout' = Append(stdout, Note("Reconstruction complete!"))
    /\ pc' = "done"
    /\ UNCHANGED <<listing, args, image_paths, camera_positions, extract_calls,
                   images, saved, vertex_count, model_call, error,
                   TRIANGLE_REMESH_AVAILABLE, QUAD_REMESH_AVAILABLE, default_distance, built>>

Next ==
    \/ ParseArgs
    \/ CheckDevice
    \/ LoadModel
    \/ ScanDirectory
    \/ CheckCount
    \/ DetectPositions
    \/ Preprocess
    \/ SaveInputs
    \/ SetVertexCount
    \/ RunModel
    \/ ExportMesh
    \/ ExportPoints

Spec == Init /\ [][Next]_vars

----------------------------------------------------------------------------
(* Properties                                                              *)

V(m, e) == [ok |-> TRUE, m |-> m, e |-> e]

Called == pc # "extract_call"
Returned == pc = "extract_return"
Matches(path) == MatchFile(path).matched
NumMatched == Cardinality({i \in 1..Len(image_paths) : Matches(image_paths[i])})

\* [(1.0, 2.0, 3.0), (-1.5, 0.0, 0.5)]
ExamplePositions ==
    <<<<V(1, 0), V(2, 0), V(3, 0)>>, <<V(0 - 15, 0 - 1), V(0, 0), V(5, 0 - 1)>>>>

\* C1: for a non-empty list in which every base file name matches, the
\* extractor returns a list as long as the input whose i-th element is the
\* triple parsed from the i-th path; [a_1_2_3.png, b_-1.5_0_0.5.jpg] gives
\* [(1.0, 2.0, 3.0), (-1.5, 0.0, 0.5)].
C1_FullCoverageInOrder ==
    /\ (Called /\ image_paths # << >> /\ NumMatched = Len(image_paths)) =>
          /\ Returned
          /\ camera_positions.tag = "list"
          /\ Len(camera_positions.val) = Len(image_paths)
          /\ \A i \in 1..Len(image_paths) :
                camera_positions.val[i] = MatchFile(image_paths[i]).xyz
    /\ (Called /\ image_paths = <<a_1_2_3_png, b_m1p5_0_0p5_jpg>>) =>
          camera_positions = List(ExamplePositions)

C1_Witness ==
    /\ Returned
    /\ image_paths = <<a_1_2_3_png, b_m1p5_0_0p5_jpg>>
    /\ camera_positions = List(ExamplePositions)
    /\ stdout = <<Extracted(2)>>

\* C2: when at least one but not all base file names match, the extractor
\* returns None, never a shorter list, and prints the partial-coverage
\* warning and that default positions are used for all images.
C2_PartialCoverageIsNone ==
    (Called /\ 0 < NumMatched /\ NumMatched < Len(image_paths)) =>
        /\ Returned
        /\ camera_positions = None
        /\ stdout = <<WarnPartial(NumMatched, Len(image_paths)), UsingDefault>>

C2_Witness ==
    /\ Returned
    /\ image_paths = <<img_1_2_3_png, random_jpg>>
    /\ camera_positions = None
    /\ stdout = <<WarnPartial(1, 2), UsingDefault>>

\* C3: extension matching is case-insensitive: a file name that matches
\* once lower-cased (img_1_2_3.PNG) matches and yields its triple.
C3_ExtensionCaseInsensitive ==
    (Returned /\ Len(image_paths) = 1
       /\ re_match(position_pattern, Lower(basename(image_paths[1]))).ok) =>
        /\ camera_positions.tag = "list"
        /\ Len(camera_positions.val) = 1

\* C4: for a non-empty list in which no base file name matches, the
\* extractor returns None and prints nothing; it prints exactly when at least
\* one path matched: the count on full coverage, the warning on partial.
C4_NoMatchIsSilent ==
    (Called /\ image_paths # << >>) =>
        /\ Returned
        /\ NumMatched = 0 => (camera_positions = None /\ stdout = << >>)
        /\ (stdout # << >>) <=> (NumMatched > 0)
        /\ NumMatched = Len(image_paths) => stdout = <<Extracted(NumMatched)>>
        /\ (0 < NumMatched /\ NumMatched < Len(image_paths)) =>
              Head(stdout) = WarnPartial(NumMatched, Len(image_paths))

C4_Witness ==
    /\ Returned
    /\ image_paths = <<photo1_png, photo2_jpg>>
    /\ camera_positions = None
    /\ stdout = << >>

\* C5: the extractor never raises: every group the pattern captures
\* converts to a float ("5", "-3.5", "1." included), and the call ends with a
\* full list or None.
C5_NeverRaises ==
    /\ pc # "extract_raise"
    /\ error = NoError
    /\ \A i \in 1..Len(image_paths) :
          LET m == re_match(position_pattern, basename(image_paths[i]))
          IN  m.ok => \A k \in 1..3 : float(m.grp[k]).ok
    /\ Returned =>
          \/ camera_positions = None
          \/ /\ camera_positions.tag = "list"
             /\ Len(camera_positions.val) = Len(image_paths)

\* a_12._1_1.png: the first group is "12.", with a trailing dot.
C5_Witness ==
    /\ Returned
    /\ image_paths = <<<<"a", "_", "1", "2", ".", "_", "1", "_", "1", ".", "p", "n", "g">>>>
    /\ re_match(position_pattern, image_paths[1]).grp[1] = <<"1", "2", ".">>
    /\ camera_positions = List(<<<<V(12, 0), V(1, 0), V(1, 0)>>>>)

\* optional minus, digits, optional dot, optional digits
IsSignedDecimal(g) ==
    LET body == IF Len(g) > 0 /\ g[1] = "-" THEN Tail(g) ELSE g
        dots == {i \in 1..Len(body) : body[i] = "."}
    IN  /\ Len(body) > 0
        /\ body[1] \in Digit
        /\ Cardinality(dots) <= 1
        /\ \A i \in 1..Len(body) : body[i] \in Digit \cup {"."}

\* The name ends with _number_number_number, a dot and png, jpg or jpeg.
EndsWithPositionSuffix(f) ==
    \E i \in 1..Len(Extensions) :
        LET ext  == Extensions[i]
            stem == SubSeq(f, 1, Len(f) - Len(ext) - 1)
            us   == {j \in 1..Len(stem) : stem[j] = "_"}
        IN  /\ EndsWith(f, <<".">> \o ext)
            /\ \E u1 \in us, u2 \in us, u3 \in us :
                  /\ u1 < u2 /\ u2 < u3
                  /\ IsSignedDecimal(SubSeq(stem, u1 + 1, u2 - 1))
                  /\ IsSignedDecimal(SubSeq(stem, u2 + 1, u3 - 1))
                  /\ IsSignedDecimal(SubSeq(stem, u3 + 1, Len(stem)))

\* C6: a base file name matches only if it ends with three groups, each an
\* underscore and a signed decimal number, then a dot and png, jpg or jpeg.
C6_MatchOnlyPositionSuffix ==
    (Returned /\ Len(image_paths) = 1 /\ camera_positions.tag = "list") =>
        EndsWithPositionSuffix(basename(image_paths[1]))

\* C7: for a file name built as name_{x}_{y}_{z}.png, the name matches, the
\* captured groups are the three rendered strings and the triple returned is
\* (x, y, z).
C7_RenderParseRoundTrip ==
    (Called /\ built # << >>) =>
        LET b == built[1]
            m == re_match(position_pattern, basename(image_paths[1]))
        IN  /\ Returned
            /\ m.ok
            /\ <<m.grp[1], m.grp[2], m.grp[3]>> = <<Render(b.x), Render(b.y), Render(b.z)>>
            /\ camera_positions
                 = List(<<<<CoordValue(b.x), CoordValue(b.y), CoordValue(b.z)>>>>)

\* img_1_2_3_-12.05_3_-3.05.png
C7_Witness ==
    /\ Returned
    /\ built = <<[name |-> <<"i", "m", "g", "_", "1", "_", "2", "_", "3">>,
                  x |-> [neg |-> TRUE, ip |-> <<"1", "2">>, fp |-> <<"0", "5">>],
                  y |-> [neg |-> FALSE, ip |-> <<"3">>, fp |-> << >>],
                  z |-> [neg |-> TRUE, ip |-> <<"3">>, fp |-> <<"0", "5">>]]>>
    /\ image_paths = <<<<"i", "m", "g", "_", "1", "_", "2", "_", "3", "_", "-", "1", "2", ".", "0", "5", "_", "3", "_", "-", "3", ".", "0", "5", ".", "p", "n", "g">>>>
    /\ camera_positions
         = List(<<<<V(0 - 1205, 0 - 2), V(3, 0), V(0 - 305, 0 - 2)>>>>)

NumImageFiles == Cardinality({f \in listing : HasImageExtension(f)})

BeforeCountCheck ==
    \/ pc \in {"parse_args", "check_device", "load_model", "scan", "check_count",
               "exit"}
    \/ pc = "error" /\ error = "ValueError: Invalid device"

\* C8: when the scan finds fewer than two image files, the run ends in the
\* ValueError before the extractor is called, before an image is
\* preprocessed or saved, before the model is called and before mesh.glb or
\* points.ply is written; the extractor and the model only ever get at least
\* two images.
C8_FewImagesFatal ==
    /\ NumImageFiles < 2 =>
          /\ extract_calls = << >>
          /\ images = 0
          /\ saved = 0
          /\ model_call = << >>
          /\ written = {}
          /\ ~BeforeCountCheck => (pc = "error" /\ error = "ValueError: Found only")
    /\ \A i \in 1..Len(extract_calls) : Len(extract_calls[i]) >= 2
    /\ \A i \in 1..Len(model_call) : model_call[i].images >= 2

C8_Witness ==
    /\ pc = "error"
    /\ error = "ValueError: Found only"
    /\ listing = {a_1_2_3_png, a_1_2_3_bmp}
    /\ image_paths = <<path_join(image_dir, a_1_2_3_png)>>
    /\ extract_calls = << >>
    /\ model_call = << >>

\* C9: the vertex count handed to run_multiview_image is -1 for 'keep',
\* target_count for 'vertex' and floor(target_count / 2) for 'faces', with
\* target_count a positive integer.
C9_VertexCountResolved ==
    /\ "target_count" \in DOMAIN args => args.target_count > 0
    /\ \A i \in 1..Len(model_call) :
          LET vc  == model_call[i].vertex_count
              rct == args.reduction_count_type
              tc  == args.target_count
          IN  /\ rct = "keep" => vc = 0 - 1
              /\ rct = "vertex" => vc = tc
              /\ rct = "faces" => (2 * vc <= tc /\ tc < 2 * vc + 2)

C9_Witness ==
    /\ pc = "done"
    /\ args.reduction_count_type = "faces"
    /\ args.target_count = 5
    /\ model_call[1].vertex_count = 2

\* C10: for every combination of remesh backends, a run that passes the
\* image-count check reaches the model call: the vertex-count step never
\* fails on a missing option.
C10_VertexCountNeverFails ==
    pc = "error" =>
        error \in {"ValueError: Invalid device", "ValueError: Found only"}

====
